---- MODULE Spec2Model ----
(***************************************************************************)
(* Event Management API (src/server.js) over PostgreSQL                    *)
(* (src/migrations/init.sql).                                              *)
(*                                                                         *)
(* Every HTTP request is a slot of `tx`.  A step of a handler is one       *)
(* `await`ed query together with the synchronous code that follows it up   *)
(* to the next query; other requests may run between two steps.  The       *)
(* database is PostgreSQL at READ COMMITTED: a statement sees the rows     *)
(* committed before it starts plus the writes of its own transaction;      *)
(* SELECT ... FOR UPDATE waits for the row lock; an INSERT that collides   *)
(* with a uniqueness key waits for an in-flight writer of the same key     *)
(* and fails once that writer has committed.                               *)
(***************************************************************************)
EXTENDS Integers, Sequences, FiniteSets, TLC

VARIABLES events, users, registrations, now, tx

vars == <<events, users, registrations, now, tx>>

(***************************************************************************)
(* Bounds of the model.                                                    *)
(***************************************************************************)
\* requests in flight together (Spec, SpecFault)
MaxTx == 2
\* requests one after the other (SpecSeq), and with POST /api/events (SpecDir)
MaxCalls == 3
MaxDirCalls == 3
\* the last reading of the clock
MaxTime == 1

Txs == DOMAIN tx
Emails == {"ann@x.io", "bob@x.io"}
\* the name a register request carries (the stored user Ann has another)
Names == {"Bob"}
\* ids a request may name: the stored events and one id that is not stored
EventIds == 1..(Len(events) + 1)

(***************************************************************************)
(* Program constants.                                                      *)
(***************************************************************************)
MinCapacity == 1
MaxCapacity == 1000

Created == 201
Ok == 200
BadRequest == 400
NotFound == 404
ServerError == 500

MsgEventNotFound == "Event not found"
MsgPastEvent == "Cannot register for past event"
MsgEventFull == "Event is full"
MsgAlreadyRegistered == "Already registered"
MsgRegistered == "Registration successful"
MsgUserNotFound == "User not found"
MsgNotRegistered == "User not registered for this event"
MsgCancelled == "Registration cancelled"
MsgValidation == "errors"
MsgUniqueViolation == "duplicate key value violates unique constraint"
MsgStorage == "storage error"
MsgStats == "stats"
MsgEventId == "eventId"

Response(s, b) == [status |-> s, body |-> b]
NoRes == Response(0, "")

(***************************************************************************)
(* Tables.                                                                 *)
(*   events        : sequence of rows, the id of a row is its index        *)
(*   users         : set of rows [id, name, email]                         *)
(*   registrations : set of rows [id, user_id, event_id]                   *)
(* A generated uuid is modelled by the slot of the request that inserts    *)
(* the row: a request inserts at most one row per table.                   *)
(***************************************************************************)
EventExists(id) == id \in 1..Len(events)

\* init.sql: UNIQUE(user_id, event_id); server.js: WHERE user_id=$1 AND event_id=$2
SameUserEventWrongColumn(r, userId, eventId) == r.user_id = userId /\ r.id = eventId
SameUserEvent(r, userId, eventId) == r.user_id = userId /\ r.event_id = eventId

\* SELECT COUNT(*)::int FROM registrations WHERE event_id=$1
RegistrationCount(eventId) == Cardinality({r \in registrations : r.event_id = eventId})

\* SELECT * FROM users WHERE email=$1
UsersByEmail(email) == {u \in users : u.email = email}

\* SELECT * FROM registrations WHERE user_id=$1 AND event_id=$2
RegistrationsOf(userId, eventId) == {r \in registrations : SameUserEvent(r, userId, eventId)}

(***************************************************************************)
(* Request slots.                                                          *)
(***************************************************************************)
IdleTx == [kind |-> "none", pc |-> "idle", eventId |-> 0, email |-> "", name |-> "",
           userId |-> 0, count |-> 0, lock |-> 0,
           insUser |-> {}, insReg |-> {}, delReg |-> {},
           res |-> NoRes, cap |-> 0, total |-> 0, remaining |-> 0, percent |-> "",
           capacity |-> 0, datetime |-> 0, valid |-> FALSE]

Active(t) == tx[t].pc \notin {"idle", "done"}
Done(t) == tx[t].pc = "done"

\* slots are taken in order: the slots are interchangeable
CanStart(t) == tx[t].pc = "idle" /\ \A s \in Txs : s < t => tx[s].pc # "idle"

\* a statement of the transaction failed: PostgreSQL aborts the transaction at once,
\* which drops its uncommitted writes and its locks; the block stays open until ROLLBACK
Abort(r) == [r EXCEPT !.lock = 0, !.insUser = {}, !.insReg = {}, !.delReg = {}]

\* the row lock of SELECT ... FOR UPDATE on events
LockFreeNoLock(eventId) == TRUE
LockFreeAnyEvent(eventId) == \A s \in Txs : tx[s].lock = 0
LockFree(eventId) == \A s \in Txs : tx[s].lock # eventId

(***************************************************************************)
(* POST /api/events/:id/register                                           *)
(***************************************************************************)
\* the request passed the validators: id is an integer >= 1, name is not empty, email is an email
StartRegister(t) ==
  /\ CanStart(t)
  /\ \E eventId \in EventIds, email \in Emails, name \in Names :
       tx' = [tx EXCEPT ![t] = [IdleTx EXCEPT !.kind = "register", !.pc = "lock",
                                 !.eventId = eventId, !.email = email, !.name = name]]
  /\ UNCHANGED <<events, users, registrations, now>>

\* new Date(event.datetime) < new Date()
IsPastNever(datetime, current) == FALSE
IsPast(datetime, current) == datetime < current

\* count.rows[0].c >= event.capacity
IsFullOffByOne(c, capacity) == c > capacity
IsFull(c, capacity) == c >= capacity

\* SELECT * FROM events WHERE id=$1 FOR UPDATE; the two checks on the row
RegisterLock(t) ==
  /\ tx[t].kind = "register" /\ tx[t].pc = "lock"
  /\ EventExists(tx[t].eventId) => LockFree(tx[t].eventId)
  /\ tx' = [tx EXCEPT ![t] =
       IF ~EventExists(tx[t].eventId)
       THEN [@ EXCEPT !.pc = "rollback", !.res = Response(NotFound, MsgEventNotFound)]
       ELSE IF IsPast(events[tx[t].eventId].datetime, now)
       THEN [@ EXCEPT !.lock = tx[t].eventId, !.pc = "rollback",
                      !.res = Response(BadRequest, MsgPastEvent)]
       ELSE [@ EXCEPT !.lock = tx[t].eventId, !.pc = "count"]]
  /\ UNCHANGED <<events, users, registrations, now>>

RegisterCountDeferred(t) ==
  /\ tx[t].kind = "register" /\ tx[t].pc = "count"
  /\ tx' = [tx EXCEPT ![t].count = RegistrationCount(tx[t].eventId), ![t].pc = "user"]
  /\ UNCHANGED <<events, users, registrations, now>>

\* SELECT COUNT(*)::int AS c FROM registrations WHERE event_id=$1
RegisterCount(t) ==
  /\ tx[t].kind = "register" /\ tx[t].pc = "count"
  /\ LET c == RegistrationCount(tx[t].eventId)
     IN tx' = [tx EXCEPT ![t] =
          IF IsFull(c, events[tx[t].eventId].capacity)
          THEN [@ EXCEPT !.count = c, !.pc = "rollback",
                         !.res = Response(BadRequest, MsgEventFull)]
          ELSE [@ EXCEPT !.count = c, !.pc = "user"]]
  /\ UNCHANGED <<events, users, registrations, now>>

RegisterUserRenames(t) ==
  /\ tx[t].kind = "register" /\ tx[t].pc = "user"
  /\ LET user == UsersByEmail(tx[t].email)
     IN IF user = {}
        THEN tx' = [tx EXCEPT ![t].pc = "insuser"]
        ELSE \E u \in user :
               tx' = [tx EXCEPT ![t].userId = u.id, ![t].pc = "dup",
                                ![t].insUser = {[u EXCEPT !.name = tx[t].name]}]
  /\ UNCHANGED <<events, users, registrations, now>>

\* SELECT * FROM users WHERE email=$1; rows[0] when there is a row
RegisterUser(t) ==
  /\ tx[t].kind = "register" /\ tx[t].pc = "user"
  /\ LET user == UsersByEmail(tx[t].email)
     IN IF user = {}
        THEN tx' = [tx EXCEPT ![t].pc = "insuser"]
        ELSE \E u \in user : tx' = [tx EXCEPT ![t].userId = u.id, ![t].pc = "dup"]
  /\ UNCHANGED <<events, users, registrations, now>>

\* an uncommitted insert of the same email by another open transaction
UserInsertInFlight(t, email) ==
  \E s \in Txs \ {t} : \E u \in tx[s].insUser : u.email = email

\* INSERT INTO users (name,email) VALUES ($1,$2) RETURNING id; users.email is UNIQUE
RegisterInsertUser(t) ==
  /\ tx[t].kind = "register" /\ tx[t].pc = "insuser"
  /\ ~UserInsertInFlight(t, tx[t].email)
  /\ tx' = [tx EXCEPT ![t] =
       IF UsersByEmail(tx[t].email) # {}
       THEN [Abort(@) EXCEPT !.pc = "catch",
                             !.res = Response(ServerError, MsgUniqueViolation)]
       ELSE [@ EXCEPT !.insUser = {[id |-> t, name |-> tx[t].name, email |-> tx[t].email]},
                      !.userId = t, !.pc = "dup"]]
  /\ UNCHANGED <<events, users, registrations, now>>

RegisterDupSkipped(t) ==
  /\ tx[t].kind = "register" /\ tx[t].pc = "dup"
  /\ tx' = [tx EXCEPT ![t].pc = "insreg"]
  /\ UNCHANGED <<events, users, registrations, now>>

\* SELECT * FROM registrations WHERE user_id=$1 AND event_id=$2
RegisterDup(t) ==
  /\ tx[t].kind = "register" /\ tx[t].pc = "dup"
  /\ LET dup == RegistrationsOf(tx[t].userId, tx[t].eventId)
     IN tx' = [tx EXCEPT ![t] =
          IF dup # {}
          THEN [@ EXCEPT !.pc = "rollback",
                         !.res = Response(BadRequest, MsgAlreadyRegistered)]
          ELSE [@ EXCEPT !.pc = "insreg"]]
  /\ UNCHANGED <<events, users, registrations, now>>

\* another open transaction has an uncommitted write on the key (user_id, event_id)
RegistrationKeyInFlight(t, userId, eventId) ==
  \E s \in Txs \ {t} :
     \E r \in tx[s].insReg \cup tx[s].delReg : SameUserEvent(r, userId, eventId)

RegisterInsertSwapped(t) ==
  /\ tx[t].kind = "register" /\ tx[t].pc = "insreg"
  /\ ~RegistrationKeyInFlight(t, tx[t].eventId, tx[t].userId)
  /\ tx' = [tx EXCEPT ![t] =
       IF RegistrationsOf(tx[t].eventId, tx[t].userId) # {}
       THEN [Abort(@) EXCEPT !.pc = "catch",
                             !.res = Response(ServerError, MsgUniqueViolation)]
       ELSE [@ EXCEPT !.insReg = {[id |-> t, user_id |-> tx[t].eventId,
                                   event_id |-> tx[t].userId]},
                      !.pc = "commit"]]
  /\ UNCHANGED <<events, users, registrations, now>>

\* INSERT INTO registrations (user_id,event_id) VALUES ($1,$2); UNIQUE(user_id, event_id)
RegisterInsert(t) ==
  /\ tx[t].kind = "register" /\ tx[t].pc = "insreg"
  /\ ~RegistrationKeyInFlight(t, tx[t].userId, tx[t].eventId)
  /\ tx' = [tx EXCEPT ![t] =
       IF RegistrationsOf(tx[t].userId, tx[t].eventId) # {}
       THEN [Abort(@) EXCEPT !.pc = "catch",
                             !.res = Response(ServerError, MsgUniqueViolation)]
       ELSE [@ EXCEPT !.insReg = {[id |-> t, user_id |-> tx[t].userId,
                                   event_id |-> tx[t].eventId]},
                      !.pc = "commit"]]
  /\ UNCHANGED <<events, users, registrations, now>>

(***************************************************************************)
(* POST /api/events/:id/cancel                                             *)
(***************************************************************************)
StartCancel(t) ==
  /\ CanStart(t)
  /\ \E eventId \in EventIds, email \in Emails :
       tx' = [tx EXCEPT ![t] = [IdleTx EXCEPT !.kind = "cancel", !.pc = "user",
                                 !.eventId = eventId, !.email = email]]
  /\ UNCHANGED <<events, users, registrations, now>>

\* SELECT id FROM users WHERE email=$1
CancelUser(t) ==
  /\ tx[t].kind = "cancel" /\ tx[t].pc = "user"
  /\ LET user == UsersByEmail(tx[t].email)
     IN IF user = {}
        THEN tx' = [tx EXCEPT ![t].pc = "rollback",
                              ![t].res = Response(NotFound, MsgUserNotFound)]
        ELSE \E u \in user : tx' = [tx EXCEPT ![t].userId = u.id, ![t].pc = "delete"]
  /\ UNCHANGED <<events, users, registrations, now>>

\* a row the DELETE matches is being deleted by another open transaction
DeleteInFlight(t, rows) ==
  \E s \in Txs \ {t} : tx[s].delReg \cap rows # {}

CancelDeleteKeepsRow(t) ==
  /\ tx[t].kind = "cancel" /\ tx[t].pc = "delete"
  /\ LET del == RegistrationsOf(tx[t].userId, tx[t].eventId)
     IN /\ ~DeleteInFlight(t, del)
        /\ tx' = [tx EXCEPT ![t] =
             IF del = {}
             THEN [@ EXCEPT !.pc = "rollback",
                            !.res = Response(BadRequest, MsgNotRegistered)]
             ELSE [@ EXCEPT !.pc = "commit"]]
  /\ UNCHANGED <<events, users, registrations, now>>

CancelDeleteRefusesPast(t) ==
  /\ tx[t].kind = "cancel" /\ tx[t].pc = "delete"
  /\ LET del == RegistrationsOf(tx[t].userId, tx[t].eventId)
     IN /\ ~DeleteInFlight(t, del)
        /\ tx' = [tx EXCEPT ![t] =
             IF del = {}
             THEN [@ EXCEPT !.pc = "rollback",
                            !.res = Response(BadRequest, MsgNotRegistered)]
             ELSE IF IsPast(events[tx[t].eventId].datetime, now)
             THEN [@ EXCEPT !.pc = "rollback",
                            !.res = Response(BadRequest, MsgPastEvent)]
             ELSE [@ EXCEPT !.delReg = del, !.pc = "commit"]]
  /\ UNCHANGED <<events, users, registrations, now>>

CancelDeleteIgnoresRowCount(t) ==
  /\ tx[t].kind = "cancel" /\ tx[t].pc = "delete"
  /\ LET del == RegistrationsOf(tx[t].userId, tx[t].eventId)
     IN /\ ~DeleteInFlight(t, del)
        /\ tx' = [tx EXCEPT ![t] = [@ EXCEPT !.delReg = del, !.pc = "commit"]]
  /\ UNCHANGED <<events, users, registrations, now>>

\* DELETE FROM registrations WHERE user_id=$1 AND event_id=$2 RETURNING *
CancelDelete(t) ==
  /\ tx[t].kind = "cancel" /\ tx[t].pc = "delete"
  /\ LET del == RegistrationsOf(tx[t].userId, tx[t].eventId)
     IN /\ ~DeleteInFlight(t, del)
        /\ tx' = [tx EXCEPT ![t] =
             IF del = {}
             THEN [@ EXCEPT !.pc = "rollback",
                            !.res = Response(BadRequest, MsgNotRegistered)]
             ELSE [@ EXCEPT !.delReg = del, !.pc = "commit"]]
  /\ UNCHANGED <<events, users, registrations, now>>

(***************************************************************************)
(* COMMIT / ROLLBACK, the response and client.release()                    *)
(***************************************************************************)
\* the statement that ends the transaction on each path of the handlers
EndStatementCommitInCatch(pc) == IF pc = "rollback" THEN "ROLLBACK" ELSE "COMMIT"
EndStatement(pc) == IF pc = "commit" THEN "COMMIT" ELSE "ROLLBACK"

SuccessResponse(kind) ==
  IF kind = "register" THEN Response(Created, MsgRegistered) ELSE Response(Ok, MsgCancelled)

FinishDeletesUser(t) ==
  /\ tx[t].kind \in {"register", "cancel"}
  /\ tx[t].pc \in {"commit", "rollback", "catch"}
  /\ LET applied == EndStatement(tx[t].pc) = "COMMIT"
     IN /\ users' = IF applied
                    THEN IF tx[t].kind = "cancel"
                         THEN {u \in users : u.id # tx[t].userId}
                         ELSE users \cup tx[t].insUser
                    ELSE users
        /\ registrations' = IF applied
                            THEN (registrations \ tx[t].delReg) \cup tx[t].insReg
                            ELSE registrations
  /\ tx' = [tx EXCEPT ![t] =
       [IdleTx EXCEPT !.kind = tx[t].kind, !.pc = "done", !.eventId = tx[t].eventId,
                      !.email = tx[t].email, !.userId = tx[t].userId,
                      !.res = IF tx[t].pc = "commit" THEN SuccessResponse(tx[t].kind)
                              ELSE tx[t].res]]
  /\ UNCHANGED <<events, now>>

FinishKeepsLock(t) ==
  /\ tx[t].kind \in {"register", "cancel"}
  /\ tx[t].pc \in {"commit", "rollback", "catch"}
  /\ LET applied == EndStatement(tx[t].pc) = "COMMIT"
     IN /\ users' = IF applied THEN users \cup tx[t].insUser ELSE users
        /\ registrations' = IF applied
                            THEN (registrations \ tx[t].delReg) \cup tx[t].insReg
                            ELSE registrations
  /\ tx' = [tx EXCEPT ![t] =
       [IdleTx EXCEPT !.kind = tx[t].kind, !.pc = "done", !.eventId = tx[t].eventId,
                      !.email = tx[t].email, !.userId = tx[t].userId,
                      !.lock = IF tx[t].pc = "rollback" THEN tx[t].lock ELSE 0,
                      !.res = IF tx[t].pc = "commit" THEN SuccessResponse(tx[t].kind)
                              ELSE tx[t].res]]
  /\ UNCHANGED <<events, now>>

Finish(t) ==
  /\ tx[t].kind \in {"register", "cancel"}
  /\ tx[t].pc \in {"commit", "rollback", "catch"}
  /\ LET applied == EndStatement(tx[t].pc) = "COMMIT"
     IN /\ users' = IF applied THEN users \cup tx[t].insUser ELSE users
        /\ registrations' = IF applied
                            THEN (registrations \ tx[t].delReg) \cup tx[t].insReg
                            ELSE registrations
  /\ tx' = [tx EXCEPT ![t] =
       [IdleTx EXCEPT !.kind = tx[t].kind, !.pc = "done", !.eventId = tx[t].eventId,
                      !.email = tx[t].email, !.userId = tx[t].userId,
                      !.res = IF tx[t].pc = "commit" THEN SuccessResponse(tx[t].kind)
                              ELSE tx[t].res]]
  /\ UNCHANGED <<events, now>>

(***************************************************************************)
(* The clock read by new Date()                                            *)
(***************************************************************************)
Tick ==
  /\ now < MaxTime
  /\ now' = now + 1
  /\ UNCHANGED <<events, users, registrations, tx>>

(***************************************************************************)
(* A query of register that throws, a driver or a server error             *)
(* (SpecFault).  The server may have aborted the transaction already, or   *)
(* the transaction is still open with its writes and locks (a client side  *)
(* failure).                                                               *)
(***************************************************************************)
QueryPcs == {"lock", "count", "user", "insuser", "dup", "insreg", "commit"}

Fault(t) ==
  /\ tx[t].kind = "register"
  /\ tx[t].pc \in QueryPcs
  /\ \E serverAborted \in BOOLEAN :
       tx' = [tx EXCEPT ![t] =
         [(IF serverAborted THEN Abort(@) ELSE @) EXCEPT
             !.pc = "catch", !.res = Response(ServerError, MsgStorage)]]
  /\ UNCHANGED <<events, users, registrations, now>>

(***************************************************************************)
(* ((total / cap) * 100).toFixed(2): IEEE 754 binary64 arithmetic, round   *)
(* to nearest, ties to even.  A positive double is [m, e]: m is its 53 bit *)
(* significand as five limbs <<t, l1, l2, l3, l4>> in base 2^13, of value  *)
(* t*2^52 + l1*2^39 + l2*2^26 + l3*2^13 + l4 with t = 1, and the double is *)
(* m * 2^e.                                                                *)
(***************************************************************************)
LimbBits == 13
LimbBase == 8192

RECURSIVE Pow2(_)
Pow2(k) == IF k = 0 THEN 1 ELSE 2 * Pow2(k - 1)

\* bring every limb but the first below the base, carrying upwards
Carry(v) ==
  LET l4 == v[5]
      l3 == v[4] + (l4 \div LimbBase)
      l2 == v[3] + (l3 \div LimbBase)
      l1 == v[2] + (l2 \div LimbBase)
      t  == v[1] + (l1 \div LimbBase)
  IN <<t, l1 % LimbBase, l2 % LimbBase, l3 % LimbBase, l4 % LimbBase>>

\* a significand that a rounding carried up to 2^53
Renormalise(m, e) ==
  IF m[1] = 2 THEN [m |-> <<1, 0, 0, 0, 0>>, e |-> e + 1] ELSE [m |-> m, e |-> e]

Times100(m) == Carry(<<100 * m[1], 100 * m[2], 100 * m[3], 100 * m[4], 100 * m[5]>>)

\* scale a / b into [1, 2): a / b * 2^e is the quotient
RECURSIVE Normalise(_, _, _)
Normalise(a, b, e) ==
  IF a < b THEN Normalise(2 * a, b, e - 1)
  ELSE IF a >= 2 * b THEN Normalise(a, 2 * b, e + 1)
  ELSE [a |-> a, b |-> b, e |-> e]

\* total / cap for integers total >= 1, cap >= 1: long division, 13 bits at a time
Divide(total, cap) ==
  LET n  == Normalise(total, cap, 0)
      r0 == n.a - n.b
      q1 == (r0 * LimbBase) \div n.b
      r1 == (r0 * LimbBase) % n.b
      q2 == (r1 * LimbBase) \div n.b
      r2 == (r1 * LimbBase) % n.b
      q3 == (r2 * LimbBase) \div n.b
      r3 == (r2 * LimbBase) % n.b
      q4 == (r3 * LimbBase) \div n.b
      r4 == (r3 * LimbBase) % n.b
      up == 2 * r4 > n.b \/ (2 * r4 = n.b /\ q4 % 2 = 1)
  IN Renormalise(Carry(<<1, q1, q2, q3, q4 + (IF up THEN 1 ELSE 0)>>), n.e - 52)

\* x * 100: the product has 6 or 7 bits more than 53, which are rounded away
Multiply100(x) ==
  LET p == Times100(x.m)
      d == IF p[1] >= 128 THEN 7 ELSE 6
      D == Pow2(d)
      H == LimbBase \div D
      dropped == p[5] % D
      up == dropped > D \div 2 \/ (dropped = D \div 2 /\ (p[5] \div D) % 2 = 1)
  IN Renormalise(Carry(<<p[1] \div D,
                         (p[1] % D) * H + (p[2] \div D),
                         (p[2] % D) * H + (p[3] \div D),
                         (p[3] % D) * H + (p[4] \div D),
                         (p[4] % D) * H + (p[5] \div D) + (IF up THEN 1 ELSE 0)>>),
                 x.e + d)

\* floor(v * 2^d) of a limb v < 2^13
Shift(v, d) ==
  IF d >= 0 THEN v * Pow2(d)
  ELSE IF d <= 0 - LimbBits THEN 0
  ELSE v \div Pow2(0 - d)

\* floor(p / 2^k) of a five limb integer p, for 13 <= k
FloorShift(p, k) ==
  Shift(p[1], 52 - k) + Shift(p[2], 39 - k) + Shift(p[3], 26 - k) + Shift(p[4], 13 - k)

\* toFixed(2): the integer n for which n / 100 - x is closest to zero, the larger
\* n of two: floor(x * 100 + 1/2).  For doubles below 2^20.
Hundredths(x) == (FloorShift(Times100(x.m), (0 - x.e) - 1) + 1) \div 2

Digit(d) ==
  CASE d = 0 -> "0" [] d = 1 -> "1" [] d = 2 -> "2" [] d = 3 -> "3" [] d = 4 -> "4"
    [] d = 5 -> "5" [] d = 6 -> "6" [] d = 7 -> "7" [] d = 8 -> "8" [] d = 9 -> "9"

RECURSIVE IntToString(_)
IntToString(n) == IF n < 10 THEN Digit(n) ELSE IntToString(n \div 10) \o Digit(n % 10)

\* Number.prototype.toFixed(2) of n / 100
FixedString(n) == IntToString(n \div 100) \o "." \o Digit((n % 100) \div 10) \o Digit(n % 10)

PercentHundredths(total, cap) ==
  IF total = 0 THEN 0 ELSE Hundredths(Multiply100(Divide(total, cap)))

\* const percent = ((total / cap) * 100).toFixed(2)
Percent(total, cap) == FixedString(PercentHundredths(total, cap))

(***************************************************************************)
(* GET /api/events/:id/stats                                               *)
(***************************************************************************)
StartStats(t) ==
  /\ CanStart(t)
  /\ \E id \in EventIds :
       tx' = [tx EXCEPT ![t] = [IdleTx EXCEPT !.kind = "stats", !.pc = "cap", !.eventId = id]]
  /\ UNCHANGED <<events, users, registrations, now>>

\* SELECT capacity FROM events WHERE id=$1
StatsCapacity(t) ==
  /\ tx[t].kind = "stats" /\ tx[t].pc = "cap"
  /\ tx' = [tx EXCEPT ![t] =
       IF ~EventExists(tx[t].eventId)
       THEN [@ EXCEPT !.pc = "done", !.res = Response(NotFound, MsgEventNotFound)]
       ELSE [@ EXCEPT !.pc = "regs", !.cap = events[tx[t].eventId].capacity]]
  /\ UNCHANGED <<events, users, registrations, now>>

StatsRegistrationsSwapped(t) ==
  /\ tx[t].kind = "stats" /\ tx[t].pc = "regs"
  /\ LET total == RegistrationCount(tx[t].eventId)
     IN tx' = [tx EXCEPT ![t] =
          [@ EXCEPT !.pc = "done", !.total = total, !.remaining = total - tx[t].cap,
                    !.percent = Percent(total, tx[t].cap),
                    !.res = Response(Ok, MsgStats)]]
  /\ UNCHANGED <<events, users, registrations, now>>

\* SELECT COUNT(*)::int AS total FROM registrations WHERE event_id=$1
StatsRegistrations(t) ==
  /\ tx[t].kind = "stats" /\ tx[t].pc = "regs"
  /\ LET total == RegistrationCount(tx[t].eventId)
     IN tx' = [tx EXCEPT ![t] =
          [@ EXCEPT !.pc = "done", !.total = total, !.remaining = tx[t].cap - total,
                    !.percent = Percent(total, tx[t].cap),
                    !.res = Response(Ok, MsgStats)]]
  /\ UNCHANGED <<events, users, registrations, now>>

(***************************************************************************)
(* POST /api/events                                                        *)
(***************************************************************************)
\* body("capacity").isInt({ min: 1, max: 1000 })
CapacityValidNoUpperBound(capacity) == capacity >= MinCapacity
CapacityValid(capacity) == capacity >= MinCapacity /\ capacity <= MaxCapacity

\* init.sql: capacity INT CHECK (capacity > 0 AND capacity <= 1000)
CapacityCheck(capacity) == capacity > 0 /\ capacity <= 1000

\* capacities a request may carry
CapacityInputs == {0, 1, 1000, 1001}

\* valid: title and location are not empty and datetime is an ISO 8601 date
StartCreate(t) ==
  /\ CanStart(t)
  /\ \E capacity \in CapacityInputs, datetime \in {0, MaxTime}, valid \in BOOLEAN :
       tx' = [tx EXCEPT ![t] = [IdleTx EXCEPT !.kind = "create", !.pc = "insert",
                                 !.capacity = capacity, !.datetime = datetime,
                                 !.valid = valid]]
  /\ UNCHANGED <<events, users, registrations, now>>

\* checkErrors, then INSERT INTO events (title, datetime, location, capacity) ... RETURNING id
CreateEvent(t) ==
  /\ tx[t].kind = "create" /\ tx[t].pc = "insert"
  /\ IF ~(tx[t].valid /\ CapacityValid(tx[t].capacity))
     THEN /\ tx' = [tx EXCEPT ![t].pc = "done",
                              ![t].res = Response(BadRequest, MsgValidation)]
          /\ events' = events
     ELSE IF ~CapacityCheck(tx[t].capacity)
     THEN /\ tx' = [tx EXCEPT ![t].pc = "done",
                              ![t].res = Response(ServerError, MsgStorage)]
          /\ events' = events
     ELSE /\ events' = Append(events, [capacity |-> tx[t].capacity,
                                       datetime |-> tx[t].datetime])
          /\ tx' = [tx EXCEPT ![t].pc = "done", ![t].eventId = Len(events) + 1,
                              ![t].res = Response(Created, MsgEventId)]
  /\ UNCHANGED <<users, registrations, now>>

(***************************************************************************)
(* Specifications.                                                         *)
(*   Spec      : MaxTx requests that interleave at every query, over two   *)
(*               stored events                                             *)
(*   SpecFault : the register requests of Spec, with queries that may      *)
(*               throw                                                     *)
(*   SpecSeq   : MaxCalls requests, each started when no other is running  *)
(*   SpecDir   : MaxDirCalls requests one after the other, POST            *)
(*               /api/events among them, from the empty database           *)
(*   SpecRace  : C + k register requests with distinct emails, all arrived,*)
(*               for one event of capacity C without registrations         *)
(*   SpecStats : one stats request over an event with n registrations      *)
(*   SpecLive  : Spec, where a request whose next step stays possible      *)
(*               takes it                                                  *)
(*   SpecCancelRace : up to MaxCancels cancel requests, all arrived, for   *)
(*               one stored registration                                   *)
(***************************************************************************)
EmptyTx(n) == [t \in 1..n |-> IdleTx]

\* events stored by earlier successful POST /api/events requests: event 1 is
\* never in the past, event 2 is in the past once the clock has ticked
StoredEvents ==
  <<[capacity |-> 1, datetime |-> MaxTime], [capacity |-> 2, datetime |-> 0]>>

\* rows committed by earlier requests: none, or Ann registered for event 2
StoredRows ==
  {[users |-> {}, registrations |-> {}],
   [users |-> {[id |-> 0, name |-> "Ann", email |-> "ann@x.io"]},
    registrations |-> {[id |-> 0, user_id |-> 0, event_id |-> 2]}]}

Init ==
  /\ events = StoredEvents
  /\ \E db \in StoredRows : users = db.users /\ registrations = db.registrations
  /\ now = 0
  /\ tx = EmptyTx(MaxTx)

\* the steps of the register requests that have started
ContinueRegister ==
  \/ \E t \in Txs : RegisterLock(t)
  \/ \E t \in Txs : RegisterCount(t)
  \/ \E t \in Txs : RegisterUser(t)
  \/ \E t \in Txs : RegisterInsertUser(t)
  \/ \E t \in Txs : RegisterDup(t)
  \/ \E t \in Txs : RegisterInsert(t)
  \/ \E t \in Txs : Finish(t)

\* the steps of the requests that have started
Continue ==
  \/ ContinueRegister
  \/ \E t \in Txs : CancelUser(t)
  \/ \E t \in Txs : CancelDelete(t)
  \/ \E t \in Txs : StatsCapacity(t)
  \/ \E t \in Txs : StatsRegistrations(t)

Next ==
  \/ Tick
  \/ \E t \in Txs : StartRegister(t)
  \/ \E t \in Txs : StartCancel(t)
  \/ \E t \in Txs : StartStats(t)
  \/ Continue

Spec == Init /\ [][Next]_vars

\* the next step of register or cancel request t, taken once its query has been
\* answered
RequestStep(t) ==
  \/ RegisterLock(t) \/ RegisterCount(t) \/ RegisterUser(t) \/ RegisterInsertUser(t)
  \/ RegisterDup(t) \/ RegisterInsert(t) \/ Finish(t)
  \/ CancelUser(t) \/ CancelDelete(t)

\* Spec with a storage that answers every query it can answer: a request whose
\* next step stays possible takes it
SpecLive == Init /\ [][Next]_vars /\ \A t \in 1..MaxTx : WF_vars(RequestStep(t))

NextFault ==
  \/ Tick
  \/ \E t \in Txs : StartRegister(t)
  \/ ContinueRegister
  \/ \E t \in Txs : Fault(t)

SpecFault == Init /\ [][NextFault]_vars

InitSeq ==
  /\ events = StoredEvents
  /\ \E db \in StoredRows : users = db.users /\ registrations = db.registrations
  /\ now = 0
  /\ tx = EmptyTx(MaxCalls)

Quiescent == \A t \in Txs : ~Active(t)

StartSeq ==
  \/ \E t \in Txs : Quiescent /\ StartRegister(t)
  \/ \E t \in Txs : Quiescent /\ StartCancel(t)
  \/ \E t \in Txs : Quiescent /\ StartStats(t)

NextSeq == Tick \/ StartSeq \/ Continue

SpecSeq == InitSeq /\ [][NextSeq]_vars

\* the clock stands at MaxTime: an event created with an earlier time is in the past
InitDir ==
  /\ events = <<>>
  /\ users = {}
  /\ registrations = {}
  /\ now = MaxTime
  /\ tx = EmptyTx(MaxDirCalls)

NextDir ==
  \/ StartSeq
  \/ \E t \in Txs : Quiescent /\ StartCreate(t)
  \/ \E t \in Txs : CreateEvent(t)
  \/ Continue

SpecDir == InitDir /\ [][NextDir]_vars

\* the property test of the specification: C + k simultaneous register calls
MaxRaceCapacity == 2
MaxRaceExtra == 1

RaceEmails == <<"ann@x.io", "bob@x.io", "cat@x.io", "dan@x.io", "eve@x.io">>

InitRace ==
  \E C \in 1..MaxRaceCapacity, k \in 0..MaxRaceExtra :
    /\ events = <<[capacity |-> C, datetime |-> 0]>>
    /\ users \in {{}, {[id |-> 0, name |-> "Ann", email |-> RaceEmails[1]]}}
    /\ registrations = {}
    /\ now = 0
    /\ tx = [t \in 1..(C + k) |->
              [IdleTx EXCEPT !.kind = "register", !.pc = "lock", !.eventId = 1,
                             !.email = RaceEmails[t], !.name = "Bob"]]

NextRace ==
  \/ \E t \in Txs : RegisterLock(t)
  \/ \E t \in Txs : RegisterCount(t)
  \/ \E t \in Txs : RegisterUser(t)
  \/ \E t \in Txs : RegisterInsertUser(t)
  \/ \E t \in Txs : RegisterDup(t)
  \/ \E t \in Txs : RegisterInsert(t)
  \/ \E t \in Txs : Finish(t)

SpecRace == InitRace /\ [][NextRace]_vars

\* MaxCancels cancel calls at most, all arrived, for the one registration of Ann
\* for event 2, which may hold a registration of Bob too
MaxCancels == 3

AnnRow == [id |-> 0, user_id |-> 0, event_id |-> 2]

InitCancelRace ==
  \E n \in 2..MaxCancels, others \in SUBSET {[id |-> 0 - 1, user_id |-> 0 - 1, event_id |-> 2]} :
    /\ events = StoredEvents
    /\ users = {[id |-> 0, name |-> "Ann", email |-> "ann@x.io"],
                [id |-> 0 - 1, name |-> "Bob", email |-> "bob@x.io"]}
    /\ registrations = {AnnRow} \cup others
    /\ now = 0
    /\ tx = [t \in 1..n |->
              [IdleTx EXCEPT !.kind = "cancel", !.pc = "user", !.eventId = 2,
                             !.email = "ann@x.io"]]

NextCancelRace ==
  \/ Tick
  \/ \E t \in Txs : CancelUser(t)
  \/ \E t \in Txs : CancelDelete(t)
  \/ \E t \in Txs : Finish(t)

SpecCancelRace == InitCancelRace /\ [][NextCancelRace]_vars

\* capacities of the event the stats are read of
StatsCapacities == {10, 160}

InitStats ==
  \E C \in StatsCapacities : \E n \in 0..C :
    /\ events = <<[capacity |-> C, datetime |-> 0]>>
    /\ users = {[id |-> 0 - i, name |-> "Ann", email |-> IntToString(i) \o "@x.io"] : i \in 1..n}
    /\ registrations = {[id |-> 0 - i, user_id |-> 0 - i, event_id |-> 1] : i \in 1..n}
    /\ now = 0
    /\ tx = EmptyTx(1)

NextStats ==
  \/ \E t \in Txs : StartStats(t)
  \/ \E t \in Txs : StatsCapacity(t)
  \/ \E t \in Txs : StatsRegistrations(t)

SpecStats == InitStats /\ [][NextStats]_vars

(***************************************************************************)
(* Vocabulary of the properties.                                           *)
(***************************************************************************)
IsRegister(t) == tx[t].kind = "register"
IsCancel(t) == tx[t].kind = "cancel"
SamePair(s, t) == tx[s].eventId = tx[t].eventId /\ tx[s].email = tx[t].email

Registered(t) == IsRegister(t) /\ Done(t) /\ tx[t].res = Response(Created, MsgRegistered)
Cancelled(t) == IsCancel(t) /\ Done(t) /\ tx[t].res = Response(Ok, MsgCancelled)
Failed(t, msg) == Done(t) /\ tx[t].res = Response(BadRequest, msg)

\* the committed registrations of the users with this email for the event
RegistrationsOfEmail(email, eventId) ==
  {r \in registrations : r.event_id = eventId /\ \E u \in users : u.email = email /\ u.id = r.user_id}

\* this step ends request t
Ends(t) == tx[t].pc # "done" /\ tx'[t].pc = "done"

(***************************************************************************)
(* C1: in every reachable state, under any interleaving of register and    *)
(* cancel requests, the committed registrations of each event are at most  *)
(* the capacity of the event.                                              *)
(***************************************************************************)
C1_CapacityRespected ==
  \A e \in 1..Len(events) : RegistrationCount(e) <= events[e].capacity

\* two register requests for a full event: one registered, one was turned away
C1_Witness ==
  \E s, t \in Txs :
    /\ s # t /\ tx[s].eventId = tx[t].eventId
    /\ Registered(s) /\ IsRegister(t) /\ Failed(t, MsgEventFull)
    /\ RegistrationCount(tx[s].eventId) = events[tx[s].eventId].capacity

(***************************************************************************)
(* C2: C + k register calls with pairwise distinct emails run together     *)
(* against one future event of capacity C without registrations; once all  *)
(* have finished, exactly C have succeeded and the other k have failed     *)
(* with 'Event is full', none with another error.                          *)
(***************************************************************************)
C2_RaceOutcome ==
  (\A t \in Txs : Done(t)) =>
     /\ Cardinality({t \in Txs : Registered(t)}) = events[1].capacity
     /\ \A t \in Txs : Registered(t) \/ Failed(t, MsgEventFull)

\* all calls have finished and more calls than places were made
C2_Witness ==
  /\ \A t \in Txs : Done(t)
  /\ Cardinality(Txs) > events[1].capacity
  /\ \E t \in Txs : Failed(t, MsgEventFull)
  /\ \E t \in Txs : Registered(t)

(***************************************************************************)
(* C3: in every reachable state there is at most one committed             *)
(* registration for each (user, event) pair.                               *)
(***************************************************************************)
C3_UniquePair ==
  \A r1, r2 \in registrations :
    (r1.user_id = r2.user_id /\ r1.event_id = r2.event_id) => r1 = r2

\* a second registration of a registered user was asked for and refused
C3_Witness ==
  \E t \in Txs :
    /\ IsRegister(t) /\ Failed(t, MsgAlreadyRegistered)
    /\ Cardinality(RegistrationsOfEmail(tx[t].email, tx[t].eventId)) = 1

(***************************************************************************)
(* C4, as claimed: when a register call with email e has succeeded for a   *)
(* future event and e is still registered, a second register call with e   *)
(* for the event fails with 'Already registered'.                          *)
(***************************************************************************)
C4_SecondIsDuplicate ==
  \A s, t \in Txs :
    ( /\ s < t /\ Registered(s) /\ IsRegister(t) /\ Done(t) /\ SamePair(s, t)
      /\ \A c \in Txs : ~(Cancelled(c) /\ SamePair(c, s))
      /\ ~IsPast(events[tx[t].eventId].datetime, now) )
    => tx[t].res = Response(BadRequest, MsgAlreadyRegistered)

(***************************************************************************)
(* C4, amended: a register call with an email that is registered for a     *)
(* future event fails with 'Event is full' when the event is full, and     *)
(* with 'Already registered' when it is not; the registrations are left    *)
(* unchanged.                                                              *)
(***************************************************************************)
C4_SecondFails ==
  [][\A t \in Txs :
       ( /\ IsRegister(t) /\ Ends(t)
         /\ EventExists(tx[t].eventId)
         /\ RegistrationsOfEmail(tx[t].email, tx[t].eventId) # {}
         /\ ~IsPast(events[tx[t].eventId].datetime, now) )
       => /\ tx'[t].res =
               IF RegistrationCount(tx[t].eventId) >= events[tx[t].eventId].capacity
               THEN Response(BadRequest, MsgEventFull)
               ELSE Response(BadRequest, MsgAlreadyRegistered)
          /\ registrations' = registrations]_vars

\* a second register call of a registered email was refused as a duplicate
C4_Witness ==
  \E s, t \in Txs :
    /\ s < t /\ Registered(s) /\ IsRegister(t) /\ SamePair(s, t)
    /\ Failed(t, MsgAlreadyRegistered)
    /\ Cardinality(RegistrationsOfEmail(tx[t].email, tx[t].eventId)) = 1

(***************************************************************************)
(* C5: after a successful register(event, email) followed by a successful  *)
(* cancel(event, email), a following register(event, email) for the still  *)
(* future event succeeds and leaves exactly one registration of the pair.  *)
(***************************************************************************)
C5_ReRegister ==
  \A t \in Txs :
    ( /\ t + 2 \in Txs
      /\ Registered(t) /\ Cancelled(t + 1) /\ IsRegister(t + 2) /\ Done(t + 2)
      /\ SamePair(t, t + 1) /\ SamePair(t, t + 2)
      /\ \A s \in Txs : s > t + 2 => tx[s].pc = "idle"
      /\ ~IsPast(events[tx[t].eventId].datetime, now) )
    => /\ Registered(t + 2)
       /\ Cardinality(RegistrationsOfEmail(tx[t].email, tx[t].eventId)) = 1

C5_Witness ==
  \E t \in Txs :
    /\ t + 2 \in Txs
    /\ Registered(t) /\ Cancelled(t + 1) /\ Registered(t + 2)
    /\ SamePair(t, t + 1) /\ SamePair(t, t + 2)

(***************************************************************************)
(* C6: a register call for an event whose scheduled time is earlier than   *)
(* the current time fails with 'Cannot register for past event' and        *)
(* inserts no row, neither a registration nor a user, also when the email  *)
(* is not known.                                                           *)
(***************************************************************************)
C6_PastEvent ==
  [][\A t \in Txs :
       /\ ( /\ IsRegister(t) /\ tx[t].pc = "lock" /\ tx'[t].pc # "lock"
            /\ EventExists(tx[t].eventId)
            /\ events[tx[t].eventId].datetime < now )
          => /\ tx'[t].pc = "rollback"
             /\ tx'[t].res = Response(BadRequest, MsgPastEvent)
       /\ ( /\ IsRegister(t) /\ tx[t].res = Response(BadRequest, MsgPastEvent)
            /\ tx'[t] # tx[t] )
          => /\ tx'[t].pc = "done"
             /\ tx'[t].res = tx[t].res
             /\ tx[t].insUser = {} /\ tx[t].insReg = {}
             /\ users' = users /\ registrations' = registrations]_vars

\* a refused register call for a past event, with an email no user has
C6_Witness ==
  \E t \in Txs :
    /\ IsRegister(t) /\ Failed(t, MsgPastEvent)
    /\ events[tx[t].eventId].datetime < now
    /\ UsersByEmail(tx[t].email) = {}

(***************************************************************************)
(* C7: a cancel call for a registration that does not exist fails with     *)
(* the NotFound kind (status 404) in both cases: the email matches no      *)
(* user, and the user has no registration for the event.                   *)
(***************************************************************************)
C7_CancelMissingIsNotFound ==
  \A t \in Txs :
    (IsCancel(t) /\ Done(t) /\ ~Cancelled(t)) => tx[t].res.status = NotFound

RoundedHundredths(n, C) == (n * 20000 + C) \div (2 * C)

C9_StatsResult ==
  \A t \in Txs :
    (tx[t].kind = "stats" /\ Done(t)) =>
      IF EventExists(tx[t].eventId)
      THEN /\ tx[t].res = Response(Ok, MsgStats)
           /\ tx[t].total = RegistrationCount(tx[t].eventId)
           /\ tx[t].remaining = events[tx[t].eventId].capacity - tx[t].total
           /\ tx[t].percent =
                FixedString(RoundedHundredths(tx[t].total, events[tx[t].eventId].capacity))
      ELSE tx[t].res = Response(NotFound, MsgEventNotFound)

(***************************************************************************)
(* C10: creating an event with a capacity outside 1..1000 fails with       *)
(* InvalidInput and stores no event, creating one with a capacity in       *)
(* 1..1000 (1 and 1000 among them) succeeds, and every stored event has a  *)
(* capacity in 1..1000 that no later step changes.                         *)
(***************************************************************************)
C10_CapacityState ==
  /\ \A e \in 1..Len(events) : events[e].capacity \in MinCapacity..MaxCapacity
  /\ \A t \in Txs :
       (tx[t].kind = "create" /\ Done(t)) =>
          /\ tx[t].capacity \notin MinCapacity..MaxCapacity
               => tx[t].res = Response(BadRequest, MsgValidation)
          /\ (tx[t].capacity \in MinCapacity..MaxCapacity /\ tx[t].valid)
               => /\ tx[t].res = Response(Created, MsgEventId)
                  /\ EventExists(tx[t].eventId)
                  /\ events[tx[t].eventId].capacity = tx[t].capacity

C10_CapacityStep ==
  /\ \A e \in 1..Len(events) : e \in 1..Len(events') /\ events'[e] = events[e]
  /\ events' # events =>
       /\ Len(events') = Len(events) + 1
       /\ \E t \in Txs : tx[t].kind = "create" /\ Ends(t)
                         /\ tx'[t].res = Response(Created, MsgEventId)

C10_Capacity == []C10_CapacityState /\ [][C10_CapacityStep]_vars

\* capacity 1001 was refused, capacity 1000 or 1 was stored
C10_Witness ==
  \E s, t \in Txs :
    /\ tx[s].kind = "create" /\ tx[s].capacity = 1001 /\ Failed(s, MsgValidation)
    /\ tx[t].kind = "create" /\ tx[t].capacity \in {1, 1000}
    /\ tx[t].res = Response(Created, MsgEventId)
    /\ events[tx[t].eventId].capacity = tx[t].capacity

(***************************************************************************)
(* C11: a failed register call reports the first failing check in the      *)
(* order event missing, event in the past, count >= capacity, registration *)
(* exists: each query step answers with its own check whatever the later   *)
(* checks would say, and once a check has failed no further query runs:    *)
(* the call ends with that answer.                                         *)
(***************************************************************************)
C11_FirstFailingCheck ==
  [][\A t \in Txs :
       (IsRegister(t) /\ tx'[t] # tx[t]) =>
         LET e == tx[t].eventId
             fails(msg, status) == /\ tx'[t].pc = "rollback"
                                   /\ tx'[t].res = Response(status, msg)
             passes(pc) == tx'[t].pc = pc /\ tx'[t].res = NoRes
         IN /\ tx[t].pc = "lock" =>
                 IF e \notin 1..Len(events) THEN fails(MsgEventNotFound, NotFound)
                 ELSE IF events[e].datetime < now THEN fails(MsgPastEvent, BadRequest)
                 ELSE passes("count")
            /\ tx[t].pc = "count" =>
                 IF Cardinality({r \in registrations : r.event_id = e}) >= events[e].capacity
                 THEN fails(MsgEventFull, BadRequest)
                 ELSE passes("user")
            /\ tx[t].pc = "dup" =>
                 IF \E r \in registrations : r.user_id = tx[t].userId /\ r.event_id = e
                 THEN fails(MsgAlreadyRegistered, BadRequest)
                 ELSE passes("insreg")
            /\ tx[t].pc = "rollback" =>
                 /\ tx'[t].pc = "done" /\ tx'[t].res = tx[t].res
                 /\ users' = users /\ registrations' = registrations]_vars

\* a call for an event that is past, full and holds a registration of the email
\* was answered with the past event error
C11_Witness ==
  \E t \in Txs :
    /\ IsRegister(t) /\ Failed(t, MsgPastEvent)
    /\ RegistrationCount(tx[t].eventId) >= events[tx[t].eventId].capacity
    /\ RegistrationsOfEmail(tx[t].email, tx[t].eventId) # {}

(***************************************************************************)
(* C12: at most one register transaction per event is between taking the   *)
(* event row lock and its commit or rollback: the count, the user lookup   *)
(* and insert, the duplicate check and the insert of two register calls on *)
(* one event never interleave.  A register call waits for the lock exactly *)
(* when another transaction holds the lock of the same event: calls on     *)
(* different events do not wait for each other.                            *)
(***************************************************************************)
C12_Serialised ==
  /\ \A s, t \in Txs :
       (s # t /\ IsRegister(s) /\ IsRegister(t) /\ tx[s].eventId = tx[t].eventId)
         => ~(/\ tx[s].pc \in {"count", "user", "insuser", "dup", "insreg", "commit"}
              /\ tx[t].pc \in {"count", "user", "insuser", "dup", "insreg", "commit"})
  /\ \A s, t \in Txs : (s # t /\ tx[s].lock # 0) => tx[s].lock # tx[t].lock
  /\ \A t \in Txs :
       (IsRegister(t) /\ tx[t].pc = "lock" /\ tx[t].eventId \in 1..Len(events))
         => (ENABLED RegisterLock(t)
               <=> ~\E s \in Txs \ {t} :
                       /\ IsRegister(s) /\ tx[s].eventId = tx[t].eventId
                       /\ tx[s].pc \in {"count", "user", "insuser", "dup", "insreg",
                                        "commit", "rollback"})

\* a register call waits for the lock while another call on the same event has
\* inserted its registration and not committed yet
C12_Witness ==
  \E s, t \in Txs :
    /\ s # t /\ IsRegister(s) /\ IsRegister(t) /\ tx[s].eventId = tx[t].eventId
    /\ tx[s].pc = "commit" /\ tx[s].insReg # {}
    /\ tx[t].pc = "lock" /\ ~ENABLED RegisterLock(t)

(***************************************************************************)
(* C13: two register calls that run together with the same email, for two  *)
(* different events that are in the future and not full, when no user has  *)
(* the email before the calls: both calls succeed, and afterwards exactly   *)
(* one user has the email and both registrations refer to that user.       *)
(***************************************************************************)
C13_FindOrCreate ==
  \A s, t \in Txs :
    ( /\ s # t /\ IsRegister(s) /\ IsRegister(t) /\ Done(s) /\ Done(t)
      /\ tx[s].email = tx[t].email /\ tx[s].eventId # tx[t].eventId
      \* no other request has run
      /\ \A x \in Txs \ {s, t} : tx[x].pc = "idle"
      /\ \A x \in {s, t} :
           /\ EventExists(tx[x].eventId)
           /\ ~IsPast(events[tx[x].eventId].datetime, now)
           \* the rows stored before the two calls leave a place
           /\ Cardinality({r \in registrations : r.event_id = tx[x].eventId /\ r.id \notin Txs})
                < events[tx[x].eventId].capacity
      \* no user had the email before the two calls
      /\ \A u \in UsersByEmail(tx[s].email) : u.id \in Txs )
    => /\ Registered(s) /\ Registered(t)
       /\ \E u \in users :
            /\ UsersByEmail(tx[s].email) = {u}
            /\ \A x \in {s, t} : \E r \in registrations :
                 r.user_id = u.id /\ r.event_id = tx[x].eventId

(***************************************************************************)
(* C14: a register call whose email matches a stored user uses that user   *)
(* and leaves the user's stored name as it is, also when the call carries  *)
(* another name: the call changes no row of users, its registration refers *)
(* to the stored user, and no email ever has two user rows.                *)
(***************************************************************************)
C14_OneUserPerEmail ==
  \A u1, u2 \in users : u1.email = u2.email => u1 = u2

C14_KnownUserStep ==
  \A t \in Txs :
    (IsRegister(t) /\ Ends(t) /\ \E u \in users : u.email = tx[t].email)
      => /\ users' = users
         /\ tx'[t].res = Response(Created, MsgRegistered)
              => \E u \in users, r \in registrations' \ registrations :
                   /\ u.email = tx[t].email
                   /\ r.user_id = u.id /\ r.event_id = tx[t].eventId
                   /\ registrations' = registrations \cup {r}

C14_KnownUser == []C14_OneUserPerEmail /\ [][C14_KnownUserStep]_vars

\* Ann's email was registered by a call that carried another name: Ann is still Ann
C14_Witness ==
  \E t \in Txs :
    /\ Registered(t) /\ tx[t].email = "ann@x.io" /\ tx[t].userId = 0
    /\ users = {[id |-> 0, name |-> "Ann", email |-> "ann@x.io"]}
    /\ [id |-> t, user_id |-> 0, event_id |-> tx[t].eventId] \in registrations

(***************************************************************************)
(* C15: a cancel call succeeds whenever a registration of the email's user *)
(* for the event exists, whether or not the event is in the past and       *)
(* however full it is: its DELETE matches the committed registration       *)
(* whatever the time and the count are, and its commit answers             *)
(* 'Registration cancelled' and lowers the count of the event by exactly   *)
(* one.                                                                    *)
(***************************************************************************)
C15_CancelUnrestricted ==
  [][\A t \in Txs :
       (IsCancel(t) /\ tx'[t] # tx[t]) =>
         LET e == tx[t].eventId
         IN /\ ( /\ tx[t].pc = "user"
                 /\ \E u \in users : u.email = tx[t].email )
               => tx'[t].pc = "delete"
            /\ ( /\ tx[t].pc = "delete"
                 /\ \E r \in registrations : r.user_id = tx[t].userId /\ r.event_id = e )
               => tx'[t].pc = "commit"
            /\ tx[t].pc = "commit"
               => /\ tx'[t].pc = "done"
                  /\ tx'[t].res = Response(Ok, MsgCancelled)
                  /\ Cardinality({r \in registrations' : r.event_id = e})
                       = Cardinality({r \in registrations : r.event_id = e}) - 1]_vars

\* a registration for a past event that was full has been cancelled
C15_Witness ==
  \E t \in Txs :
    /\ Cancelled(t)
    /\ events[tx[t].eventId].datetime < now
    /\ RegistrationCount(tx[t].eventId) = events[tx[t].eventId].capacity - 1
    /\ RegistrationsOfEmail(tx[t].email, tx[t].eventId) = {}

(***************************************************************************)
(* C16: under fair scheduling and a storage that answers every query,      *)
(* every started register or cancel call eventually ends; a call that has  *)
(* ended holds no row lock and no uncommitted write, has returned one      *)
(* result, and takes no further step (its one COMMIT or ROLLBACK was its   *)
(* last step).  No interleaving of the calls leaves a call waiting for     *)
(* ever.                                                                   *)
(***************************************************************************)
C16_EndedState ==
  \A t \in Txs :
    (Done(t) /\ (IsRegister(t) \/ IsCancel(t)))
      => /\ tx[t].lock = 0
         /\ tx[t].insUser = {} /\ tx[t].insReg = {} /\ tx[t].delReg = {}
         /\ tx[t].res # NoRes

C16_EndedStep ==
  \A t \in Txs :
    /\ Done(t) => tx'[t] = tx[t]
    /\ (users' # users \/ registrations' # registrations)
         => \E s \in Txs : tx[s].pc = "commit" /\ Ends(s)

C16_Terminates ==
  /\ \A t \in 1..MaxTx :
       (tx[t].kind \in {"register", "cancel"} /\ tx[t].pc # "idle") ~> (tx[t].pc = "done")
  /\ []C16_EndedState
  /\ [][C16_EndedStep]_vars

\* two register calls for one event, the second of which waited for the row lock
\* of the first, have both ended
C16_Witness ==
  \E s, t \in Txs :
    /\ s # t /\ Registered(s) /\ Registered(t) /\ tx[s].eventId = tx[t].eventId
    /\ \A x \in Txs : Done(x) /\ tx[x].lock = 0

(***************************************************************************)
(* C17: cancel calls for the same (email, event) that run together against *)
(* one existing registration: once all have ended exactly one has          *)
(* succeeded and every other one has failed as not registered; the         *)
(* registration is removed in exactly one step, which removes nothing      *)
(* else, so the count of the event drops by exactly one.                   *)
(***************************************************************************)
C17_Outcome ==
  (\A t \in Txs : Done(t)) =>
     /\ Cardinality({t \in Txs : Cancelled(t)}) = 1
     /\ \A t \in Txs :
          Cancelled(t) \/ (tx[t].res.status # Ok /\ tx[t].res.body = MsgNotRegistered)
     /\ AnnRow \notin registrations

C17_RemovedOnce ==
  registrations' # registrations =>
    /\ AnnRow \in registrations
    /\ registrations' = registrations \ {AnnRow}
    /\ Cardinality({r \in registrations' : r.event_id = 2})
         = Cardinality({r \in registrations : r.event_id = 2}) - 1
    /\ \E t \in Txs : Ends(t) /\ tx'[t].res = Response(Ok, MsgCancelled)

C17_ConcurrentCancel == []C17_Outcome /\ [][C17_RemovedOnce]_vars

\* all calls have ended: one cancelled the registration, one was refused
C17_Witness ==
  /\ \A t \in Txs : Done(t)
  /\ \E s, t \in Txs :
       /\ Cancelled(s)
       /\ tx[t].res = Response(BadRequest, MsgNotRegistered)
  /\ AnnRow \notin registrations

(***************************************************************************)
(* C18: every result getStats returns for an existing event, whatever      *)
(* register and cancel calls run between its capacity read and its count   *)
(* read, has 0 <= totalRegistrations <= capacity, remainingCapacity >= 0   *)
(* and totalRegistrations + remainingCapacity = capacity.                  *)
(***************************************************************************)
C18_StatsBounds ==
  \A t \in Txs :
    (tx[t].kind = "stats" /\ Done(t) /\ tx[t].res = Response(Ok, MsgStats)) =>
      /\ EventExists(tx[t].eventId)
      /\ 0 <= tx[t].total /\ tx[t].total <= events[tx[t].eventId].capacity
      /\ tx[t].remaining >= 0
      /\ tx[t].total + tx[t].remaining = events[tx[t].eventId].capacity

\* a stats call reported a full event that a register call, started after the
\* stats call, had filled
C18_Witness ==
  \E s, t \in Txs :
    /\ t < s /\ tx[t].kind = "stats" /\ Done(t) /\ tx[t].res = Response(Ok, MsgStats)
    /\ Registered(s) /\ tx[s].eventId = tx[t].eventId
    /\ tx[t].total = events[tx[t].eventId].capacity /\ tx[t].remaining = 0

(***************************************************************************)
(* C19: a successful register call adds exactly one registration row, of   *)
(* the user that has the call's email for the requested event, and at most *)
(* one user row, which it adds only when no user had the email; it leaves  *)
(* every other registration, every other user and every event unchanged.   *)
(***************************************************************************)
C19_RegisterFrame ==
  [][\A t \in Txs :
       (IsRegister(t) /\ Ends(t) /\ tx'[t].res = Response(Created, MsgRegistered)) =>
         /\ events' = events
         /\ \E r \in registrations' \ registrations :
              /\ registrations' = registrations \cup {r}
              /\ r.event_id = tx[t].eventId
              /\ \E u \in users' : u.id = r.user_id /\ u.email = tx[t].email
         /\ \/ users' = users
            \/ /\ ~\E u \in users : u.email = tx[t].email
               /\ \E u \in users' \ users :
                    /\ users' = users \cup {u}
                    /\ u.email = tx[t].email /\ u.name = tx[t].name]_vars

\* a call with an unknown email has registered: the stored user and registration
\* are still there, next to the call's new user and registration
C19_Witness ==
  \E t \in Txs :
    /\ Registered(t) /\ tx[t].userId = t
    /\ users = {[id |-> 0, name |-> "Ann", email |-> "ann@x.io"],
                [id |-> t, name |-> "Bob", email |-> "bob@x.io"]}
    /\ registrations = {[id |-> 0, user_id |-> 0, event_id |-> 2],
                        [id |-> t, user_id |-> t, event_id |-> tx[t].eventId]}

(***************************************************************************)
(* C20: no cancel call, successful or failed, deletes or changes a user or *)
(* an event: a successful cancel removes exactly the one registration of   *)
(* (user, event) and nothing else, a failed one removes nothing, and over  *)
(* any sequence of register and cancel calls no user row is ever removed   *)
(* or changed.                                                             *)
(***************************************************************************)
C20_CancelFrame ==
  [][/\ events' = events
     /\ \A u \in users : u \in users'
     /\ \A t \in Txs :
          (IsCancel(t) /\ tx'[t] # tx[t]) =>
            /\ users' = users
            /\ IF Ends(t) /\ tx'[t].res = Response(Ok, MsgCancelled)
               THEN \E r \in registrations :
                      /\ registrations' = registrations \ {r}
                      /\ r.event_id = tx[t].eventId
                      /\ \E u \in users : u.id = r.user_id /\ u.email = tx[t].email
               ELSE registrations' = registrations]_vars

\* Ann's only registration was cancelled: Ann is still a user
C20_Witness ==
  \E t \in Txs :
    /\ Cancelled(t) /\ tx[t].email = "ann@x.io"
    /\ [id |-> 0, name |-> "Ann", email |-> "ann@x.io"] \in users
    /\ \A r \in registrations : r.user_id # 0

====
